---- MODULE Spec2Model ----
(***************************************************************************)
(* A model of the TypedEvents dispatcher (src/events.ts): the registry     *)
(* built by the constructor, the middleware chain grown by use, and the    *)
(* dispatch performed by processEvent on behalf of emit, call and group.   *)
(*                                                                         *)
(* Strings are sequences of one-character strings, so that endsWith,       *)
(* startsWith and replace are computed as the code computes them.          *)
(* A promise is one of "pending", "fulfilled", "rejected".  Every action   *)
(* is one synchronous run of JavaScript: from the resumption of an await   *)
(* (or the call of a public method) up to the next await or return.        *)
(* Handlers are asynchronous functions: a failure of a handler is a        *)
(* rejection of the promise it returned.                                   *)
(***************************************************************************)
EXTENDS Integers, Sequences, FiniteSets, TLC

\* ---------------------------------------------------------------- bounds
MaxMiddleware == 2

\* --------------------------------------------------------------- strings
Marker == <<".", "*">>
Wildcard == <<"*">>

s_uc == <<"u", ".", "c">>
s_o == <<"o">>
s_u_star == <<"u", ".", "*">>
s_uc_star == <<"u", ".", "c", ".", "*">>
s_inner == <<"u", ".", "*", "c", ".", "*">>
s_u_star_c == <<"u", ".", "*", "c">>
s_toString == <<"t", "o", "S", "t", "r", "i", "n", "g">>

\* String.prototype.endsWith
EndsWith(s, suffix) ==
    /\ Len(s) >= Len(suffix)
    /\ SubSeq(s, Len(s) - Len(suffix) + 1, Len(s)) = suffix

\* String.prototype.startsWith
StartsWith(s, prefix) ==
    /\ Len(s) >= Len(prefix)
    /\ SubSeq(s, 1, Len(prefix)) = prefix

\* positions at which pattern occurs in s
Occurrences(s, pattern) ==
    {i \in 1..(Len(s) - Len(pattern) + 1) : SubSeq(s, i, i + Len(pattern) - 1) = pattern}

Min(S) == CHOOSE x \in S : \A y \in S : x <= y

\* String.prototype.replace with a string pattern: the first occurrence only
Replace(s, pattern, replacement) ==
    IF Occurrences(s, pattern) = {} THEN s
    ELSE LET i == Min(Occurrences(s, pattern))
         IN SubSeq(s, 1, i - 1) \o replacement \o SubSeq(s, i + Len(pattern), Len(s))

\* the filter of the namespace phase
NamespaceFilter(registeredEvent, eventName) ==
    /\ EndsWith(registeredEvent, Marker)
    /\ StartsWith(eventName, Replace(registeredEvent, Marker, <<>>))

\* -------------------------------------------------------------- registry
\* The registry is the object this.handlers: its keys in insertion order,
\* each with its list of handlers.  A handler is named by the place of its
\* entry: <<index of the schema, index of the entry in the schema>>.
HasKey(reg, event) == \E k \in 1..Len(reg) : reg[k].event = event

IndexOfKey(reg, event) == CHOOSE k \in 1..Len(reg) : reg[k].event = event

\* The registry is created as {}: besides its own keys it has the
\* properties every object inherits, such as toString, and
\* this.handlers[event] finds them.  An inherited property is a function:
\* it is truthy and has no map.
Inherited == {s_toString}

\* this.handlers[event]
Lookup(reg, event) == reg[IndexOfKey(reg, event)].list

\* Object.keys(this.handlers)
ObjectKeys(reg) == [k \in 1..Len(reg) |-> reg[k].event]

\* the body of the inner forEach of the constructor
RegisterOverwriting(reg, event, handler) ==
    IF ~HasKey(reg, event)
    THEN Append(reg, [event |-> event, list |-> <<handler>>])
    ELSE [reg EXCEPT ![IndexOfKey(reg, event)].list = <<handler>>]

Register(reg, event, handler) ==
    IF ~HasKey(reg, event)
    THEN Append(reg, [event |-> event, list |-> <<handler>>])
    ELSE [reg EXCEPT ![IndexOfKey(reg, event)].list = Append(@, handler)]

RECURSIVE RegisterSchema(_, _, _, _)
RegisterSchema(reg, schema, i, j) ==
    IF j > Len(schema) THEN reg
    ELSE RegisterSchema(Register(reg, schema[j], <<i, j>>), schema, i, j + 1)

RECURSIVE RegisterSchemas(_, _, _)
RegisterSchemas(reg, schemas, i) ==
    IF i > Len(schemas) THEN reg
    ELSE RegisterSchemas(RegisterSchema(reg, schemas[i], i, 1), schemas, i + 1)

\* constructor(schemas): a schema is the list of its keys in entry order
Constructor(schemas) == RegisterSchemas(<<>>, schemas, 1)

\* the schema lists the model is constructed from; none of their keys is
\* an inherited name
SchemaLists ==
    { << <<s_uc, s_u_star>>, <<s_uc, Wildcard>> >>,
      << <<s_u_star, s_uc_star>>, <<Wildcard>> >>,
      << <<s_inner, s_u_star_c>> >>,
      << <<Wildcard>>, <<s_uc>>, <<Wildcard>> >>,
      << <<s_uc>>, <<s_uc>> >> }

EventNames == {s_uc, s_o, s_u_star_c, Wildcard, s_u_star}

\* an emitted name as the data model describes it
Concrete(eventName) == eventName # Wildcard /\ ~EndsWith(eventName, Marker)

Payloads == {"p1", "p2"}

VARIABLES schemas, handlers, middleware, op, dispatches

vars == <<schemas, handlers, middleware, op, dispatches>>


\* -------------------------------------------------------------- promises
\* resolve and reject of a promise: only a pending promise changes
Resolve(promise) == IF promise = "pending" THEN "fulfilled" ELSE promise

Reject(promise) == IF promise = "pending" THEN "rejected" ELSE promise

\* What a middleware does while it is being called: call next, call next
\* twice, keep next for later, throw, or call next and then throw.
MwBehaviours == {"next", "twice", "later", "throw", "nextThenThrow"}

\* new Promise((resolve) => { this.middleware[i](eventName, payload, resolve) }):
\* next is resolve, and an exception of the executor rejects the promise.
ExecutorCatches(b) ==
    CASE b = "next" -> Resolve("pending")
      [] b = "twice" -> Resolve(Resolve("pending"))
      [] b = "later" -> "pending"
      [] b = "throw" -> Resolve("pending")
      [] b = "nextThenThrow" -> Resolve("pending")

Executor(b) ==
    CASE b = "next" -> Resolve("pending")
      [] b = "twice" -> Resolve(Resolve("pending"))
      [] b = "later" -> "pending"
      [] b = "throw" -> Reject("pending")
      [] b = "nextThenThrow" -> Reject(Resolve("pending"))

\* the number of times a middleware calls next while it is being called
NextCalls(b) ==
    CASE b = "next" -> 1
      [] b = "twice" -> 2
      [] b = "later" -> 0
      [] b = "throw" -> 0
      [] b = "nextThenThrow" -> 1

Range(from, to) == [k \in 1..(to - from + 1) |-> from + k - 1]

\* Promise.all of the executions numbered by idxs
PromiseAll(executions, idxs) ==
    IF \E k \in 1..Len(idxs) : executions[idxs[k]].state = "rejected" THEN "rejected"
    ELSE IF \A k \in 1..Len(idxs) : executions[idxs[k]].state = "fulfilled" THEN "fulfilled"
    ELSE "pending"

\* Promise.allSettled of the executions numbered by idxs
PromiseAllSettled(executions, idxs) ==
    IF \E k \in 1..Len(idxs) : executions[idxs[k]].state = "pending" THEN "pending"
    ELSE "fulfilled"

\* the value Promise.all is fulfilled with: the values in the order of idxs
AllValues(executions, idxs) == [k \in 1..Len(idxs) |-> executions[idxs[k]].handler]

\* the value Promise.allSettled is fulfilled with
AllSettledValues(executions, idxs) ==
    [k \in 1..Len(idxs) |->
        [status |-> executions[idxs[k]].state, value |-> executions[idxs[k]].handler]]

\* collectResults ? Promise.all(executions) : Promise.allSettled(executions)
JoinFailFast(d, idxs) == PromiseAll(d.executions, idxs)

Join(d, idxs) ==
    IF d.collectResults THEN PromiseAll(d.executions, idxs)
    ELSE PromiseAllSettled(d.executions, idxs)

JoinValuesAsSettled(d, idxs) ==
    LET order == SelectSeq(d.settled, LAMBDA k : \E j \in DOMAIN idxs : idxs[j] = k)
    IN IF d.collectResults THEN AllValues(d.executions, order)
       ELSE AllSettledValues(d.executions, order)

JoinValues(d, idxs) ==
    IF d.collectResults THEN AllValues(d.executions, idxs)
    ELSE AllSettledValues(d.executions, idxs)

\* ---------------------------------------------------------- processEvent
\* the local state of one run of processEvent, with what is remembered of
\* its past: started is the length of the chain when it was called, called
\* the number of calls of the continuation of the middleware awaited, twice
\* whether a middleware of this run called its continuation more than once
NewDispatch(eventName, payload, collectResults) ==
    [eventName |-> eventName, payload |-> payload, collectResults |-> collectResults,
     pc |-> "start", i |-> 0, promise |-> "none", invoked |-> <<>>, raised |-> {},
     started |-> Len(middleware), called |-> 0, twice |-> FALSE,
     executions |-> <<>>, settled |-> <<>>, exact |-> <<>>, wildcard |-> <<>>,
     namespaces |-> <<>>, results |-> <<>>]

\* this.handlers[key].map((handler) => handler(payload, eventName)): every
\* handler under the key is called, and each returns a pending promise
MapHandlersOneByOne(d, key, phase) ==
    [k \in 1..1 |->
        [handler |-> Lookup(handlers, key)[k], key |-> key, phase |-> phase,
         state |-> "pending", payload |-> d.payload, eventName |-> d.eventName]]

MapHandlers(d, key, phase) ==
    [k \in 1..Len(Lookup(handlers, key)) |->
        [handler |-> Lookup(handlers, key)[k], key |-> key, phase |-> phase,
         state |-> "pending", payload |-> d.payload, eventName |-> d.eventName]]

\* return collectResults ? results : undefined
Return(d) == [d EXCEPT !.pc = "fulfilled"]

\* the wildcard phase up to its await, or the return when no key "*" exists
WildcardPhase(d) ==
    IF HasKey(handlers, Wildcard)
    THEN LET executions == MapHandlers(d, Wildcard, "wildcard")
         IN [d EXCEPT !.executions = @ \o executions,
                      !.wildcard = Range(Len(d.executions) + 1,
                                         Len(d.executions) + Len(executions)),
                      !.pc = "wildcard"]
    ELSE Return(d)

\* the async callback of forEach up to its await; forEach does not wait for it
NamespaceCallback(d, namespace) ==
    LET executions == MapHandlers(d, namespace, "namespace")
    IN [d EXCEPT !.executions = @ \o executions,
                 !.namespaces = Append(@,
                     [namespace |-> namespace,
                      executions |-> Range(Len(d.executions) + 1,
                                           Len(d.executions) + Len(executions)),
                      state |-> "awaiting"])]

RECURSIVE ForEachNamespace(_, _)
ForEachNamespace(d, k) ==
    IF k > Len(ObjectKeys(handlers)) THEN d
    ELSE IF NamespaceFilter(ObjectKeys(handlers)[k], d.eventName)
         THEN ForEachNamespace(NamespaceCallback(d, ObjectKeys(handlers)[k]), k + 1)
         ELSE ForEachNamespace(d, k + 1)

\* Object.keys(this.handlers).filter(...).forEach(async ...), then the rest
NamespacePhase(d) == WildcardPhase(ForEachNamespace(d, 1))

ExactPhaseNotAwaited(d) ==
    IF HasKey(handlers, d.eventName)
    THEN LET executions == MapHandlers(d, d.eventName, "exact")
         IN NamespacePhase([d EXCEPT !.executions = @ \o executions,
                                     !.exact = Range(Len(d.executions) + 1,
                                                     Len(d.executions) + Len(executions))])
    ELSE IF d.eventName \in Inherited
         THEN [d EXCEPT !.pc = "rejected"]
         ELSE NamespacePhase(d)

\* the exact phase up to its await, or on to the namespace phase; for an
\* inherited name the test of line 78 succeeds and .map is not a function:
\* the TypeError leaves processEvent
ExactPhase(d) ==
    IF HasKey(handlers, d.eventName)
    THEN LET executions == MapHandlers(d, d.eventName, "exact")
         IN [d EXCEPT !.executions = @ \o executions,
                      !.exact = Range(Len(d.executions) + 1,
                                      Len(d.executions) + Len(executions)),
                      !.pc = "exact"]
    ELSE IF d.eventName \in Inherited
         THEN [d EXCEPT !.pc = "rejected"]
         ELSE NamespacePhase(d)

MiddlewareLoopSnapshot(d, b) ==
    IF d.i < d.started
    THEN [d EXCEPT !.pc = "middleware", !.promise = Executor(b),
                   !.invoked = Append(@, d.i + 1),
                   !.raised = @ \cup ({b} \cap {"throw", "nextThenThrow"}),
                   !.called = NextCalls(b), !.twice = @ \/ NextCalls(b) > 1]
    ELSE ExactPhase(d)

MiddlewareLoopSkipsLast(d, b) ==
    IF d.i + 1 < Len(middleware)
    THEN [d EXCEPT !.pc = "middleware", !.promise = Executor(b),
                   !.invoked = Append(@, d.i + 1),
                   !.raised = @ \cup ({b} \cap {"throw", "nextThenThrow"}),
                   !.called = NextCalls(b), !.twice = @ \/ NextCalls(b) > 1]
    ELSE ExactPhase(d)

\* the head of the middleware loop: i < this.middleware.length is read anew
\* at every iteration; b is what the middleware called here does, and
\* raised keeps which of the middleware called so far threw
MiddlewareLoop(d, b) ==
    IF d.i < Len(middleware)
    THEN [d EXCEPT !.pc = "middleware", !.promise = Executor(b),
                   !.invoked = Append(@, d.i + 1),
                   !.raised = @ \cup ({b} \cap {"throw", "nextThenThrow"}),
                   !.called = NextCalls(b), !.twice = @ \/ NextCalls(b) > 1]
    ELSE ExactPhase(d)

\* processEvent from its call to its first await or its return
ProcessEvent(eventName, payload, collectResults, b) ==
    MiddlewareLoop(NewDispatch(eventName, payload, collectResults), b)


\* --------------------------------------------------------------- actions
Init ==
    /\ schemas \in SchemaLists
    /\ handlers = Constructor(schemas)
    /\ middleware = <<>>
    /\ op = [kind |-> "none", state |-> "none"]
    /\ dispatches = <<>>

\* use(middleware): the middleware is named by its place in the chain
Use ==
    /\ Len(middleware) < MaxMiddleware
    /\ middleware' = Append(middleware, Len(middleware) + 1)
    /\ UNCHANGED <<schemas, handlers, op, dispatches>>

\* emit(event, payload) up to the first await of processEvent
Emit(event, payload) ==
    /\ op.kind = "none"
    /\ \E b \in MwBehaviours :
         dispatches' = <<ProcessEvent(event, payload, FALSE, b)>>
    /\ op' = [kind |-> "emit", state |-> "pending"]
    /\ UNCHANGED <<schemas, handlers, middleware>>

\* call(event, payload) up to the first await of processEvent
Call(event, payload) ==
    /\ op.kind = "none"
    /\ \E b \in MwBehaviours :
         dispatches' = <<ProcessEvent(event, payload, TRUE, b)>>
    /\ op' = [kind |-> "call", state |-> "pending"]
    /\ UNCHANGED <<schemas, handlers, middleware>>

GroupFailFast(events) ==
    /\ op.kind = "none"
    /\ \E bs \in [1..Len(events) -> MwBehaviours] :
         dispatches' = [n \in 1..Len(events) |->
                           ProcessEvent(events[n].event, events[n].payload, TRUE, bs[n])]
    /\ op' = [kind |-> "group", state |-> "pending"]
    /\ UNCHANGED <<schemas, handlers, middleware>>

\* group(events): events.map starts processEvent for every entry in turn
Group(events) ==
    /\ op.kind = "none"
    /\ \E bs \in [1..Len(events) -> MwBehaviours] :
         dispatches' = [n \in 1..Len(events) |->
                           ProcessEvent(events[n].event, events[n].payload, FALSE, bs[n])]
    /\ op' = [kind |-> "group", state |-> "pending"]
    /\ UNCHANGED <<schemas, handlers, middleware>>

\* the middleware awaited calls the continuation it kept, for the first or
\* for the second time
Next_(n) ==
    /\ n \in 1..Len(dispatches)
    /\ dispatches[n].pc = "middleware"
    /\ dispatches[n].called < 2
    /\ dispatches' = [dispatches EXCEPT ![n].promise = Resolve(@),
                                        ![n].called = @ + 1,
                                        ![n].twice = @ \/ dispatches[n].called = 1]
    /\ UNCHANGED <<schemas, handlers, middleware, op>>

AwaitMiddlewarePerCall(n) ==
    /\ n \in 1..Len(dispatches)
    /\ dispatches[n].pc = "middleware"
    /\ dispatches[n].promise \in {"fulfilled", "rejected"}
    /\ IF dispatches[n].promise = "rejected"
       THEN dispatches' = [dispatches EXCEPT ![n].pc = "rejected"]
       ELSE \E b \in MwBehaviours :
              dispatches' = [dispatches EXCEPT
                  ![n] = MiddlewareLoop([@ EXCEPT !.i = @ + dispatches[n].called,
                                                    !.promise = "none",
                                                    !.called = 0], b)]
    /\ UNCHANGED <<schemas, handlers, middleware, op>>

AwaitMiddlewareUnsuspended(n) ==
    /\ n \in 1..Len(dispatches)
    /\ dispatches[n].pc = "middleware"
    /\ IF dispatches[n].promise = "rejected"
       THEN dispatches' = [dispatches EXCEPT ![n].pc = "rejected"]
       ELSE \E b \in MwBehaviours :
              dispatches' = [dispatches EXCEPT
                  ![n] = MiddlewareLoop([@ EXCEPT !.i = @ + 1, !.promise = "none",
                                                    !.called = 0], b)]
    /\ UNCHANGED <<schemas, handlers, middleware, op>>

\* the await of the middleware loop resumes: i++ and the loop head again,
\* or the exception of the middleware leaves processEvent
AwaitMiddleware(n) ==
    /\ n \in 1..Len(dispatches)
    /\ dispatches[n].pc = "middleware"
    /\ dispatches[n].promise \in {"fulfilled", "rejected"}
    /\ IF dispatches[n].promise = "rejected"
       THEN dispatches' = [dispatches EXCEPT ![n].pc = "rejected"]
       ELSE \E b \in MwBehaviours :
              dispatches' = [dispatches EXCEPT
                  ![n] = MiddlewareLoop([@ EXCEPT !.i = @ + 1, !.promise = "none",
                                                    !.called = 0], b)]
    /\ UNCHANGED <<schemas, handlers, middleware, op>>

\* the promise a handler returned is fulfilled or rejected
HandlerSettle(n, k, outcome) ==
    /\ n \in 1..Len(dispatches)
    /\ k \in 1..Len(dispatches[n].executions)
    /\ dispatches[n].executions[k].state = "pending"
    /\ dispatches' = [dispatches EXCEPT ![n].executions[k].state = outcome,
                                        ![n].settled = Append(@, k)]
    /\ UNCHANGED <<schemas, handlers, middleware, op>>

AwaitExactSwallows(n) ==
    /\ n \in 1..Len(dispatches)
    /\ dispatches[n].pc = "exact"
    /\ Join(dispatches[n], dispatches[n].exact) # "pending"
    /\ IF Join(dispatches[n], dispatches[n].exact) = "rejected"
       THEN dispatches' = [dispatches EXCEPT ![n] = NamespacePhase(@)]
       ELSE dispatches' = [dispatches EXCEPT
              ![n] = NamespacePhase(
                       [@ EXCEPT !.results = @ \o JoinValues(dispatches[n], dispatches[n].exact)])]
    /\ UNCHANGED <<schemas, handlers, middleware, op>>

\* the await of the exact phase resumes
AwaitExact(n) ==
    /\ n \in 1..Len(dispatches)
    /\ dispatches[n].pc = "exact"
    /\ Join(dispatches[n], dispatches[n].exact) # "pending"
    /\ IF Join(dispatches[n], dispatches[n].exact) = "rejected"
       THEN dispatches' = [dispatches EXCEPT ![n].pc = "rejected"]
       ELSE dispatches' = [dispatches EXCEPT
              ![n] = NamespacePhase(
                       [@ EXCEPT !.results = @ \o JoinValues(dispatches[n], dispatches[n].exact)])]
    /\ UNCHANGED <<schemas, handlers, middleware, op>>

\* the await inside the forEach callback of namespace t resumes: it pushes
\* to results, or its rejection is the rejection of a promise nobody holds
AwaitNamespace(n, t) ==
    /\ n \in 1..Len(dispatches)
    /\ t \in 1..Len(dispatches[n].namespaces)
    /\ dispatches[n].namespaces[t].state = "awaiting"
    /\ Join(dispatches[n], dispatches[n].namespaces[t].executions) # "pending"
    /\ IF Join(dispatches[n], dispatches[n].namespaces[t].executions) = "rejected"
       THEN dispatches' = [dispatches EXCEPT ![n].namespaces[t].state = "unhandled"]
       ELSE dispatches' = [dispatches EXCEPT
              ![n].namespaces[t].state = "done",
              ![n].results = @ \o JoinValues(dispatches[n],
                                             dispatches[n].namespaces[t].executions)]
    /\ UNCHANGED <<schemas, handlers, middleware, op>>

\* the await of the wildcard phase resumes, and processEvent returns
AwaitWildcard(n) ==
    /\ n \in 1..Len(dispatches)
    /\ dispatches[n].pc = "wildcard"
    /\ Join(dispatches[n], dispatches[n].wildcard) # "pending"
    /\ IF Join(dispatches[n], dispatches[n].wildcard) = "rejected"
       THEN dispatches' = [dispatches EXCEPT ![n].pc = "rejected"]
       ELSE dispatches' = [dispatches EXCEPT
              ![n] = Return(
                       [@ EXCEPT !.results = @ \o JoinValues(dispatches[n], dispatches[n].wildcard)])]
    /\ UNCHANGED <<schemas, handlers, middleware, op>>

\* await this.processEvent(...) of emit resumes
EmitSettle ==
    /\ op = [kind |-> "emit", state |-> "pending"]
    /\ dispatches[1].pc \in {"fulfilled", "rejected"}
    /\ op' = [op EXCEPT !.state = dispatches[1].pc]
    /\ UNCHANGED <<schemas, handlers, middleware, dispatches>>

\* the promise of call follows the promise of processEvent
CallSettle ==
    /\ op = [kind |-> "call", state |-> "pending"]
    /\ dispatches[1].pc \in {"fulfilled", "rejected"}
    /\ op' = [op EXCEPT !.state = dispatches[1].pc]
    /\ UNCHANGED <<schemas, handlers, middleware, dispatches>>

\* Promise.all over the promises of processEvent
GroupAll ==
    IF \E n \in 1..Len(dispatches) : dispatches[n].pc = "rejected" THEN "rejected"
    ELSE IF \A n \in 1..Len(dispatches) : dispatches[n].pc = "fulfilled" THEN "fulfilled"
    ELSE "pending"

\* await Promise.all(...) of group resumes
GroupSettle ==
    /\ op = [kind |-> "group", state |-> "pending"]
    /\ GroupAll # "pending"
    /\ op' = [op EXCEPT !.state = GroupAll]
    /\ UNCHANGED <<schemas, handlers, middleware, dispatches>>

\* the entries a group is made of
GroupEntries == {[event |-> s_o, payload |-> "p1"], [event |-> s_u_star_c, payload |-> "p2"]}

\* the lists group is called with: none, one or two entries
GroupLists == {<<>>} \cup {<<e>> : e \in GroupEntries}
              \cup {<<[event |-> s_o, payload |-> "p1"],
                       [event |-> s_u_star_c, payload |-> "p2"]>>}

Next ==
    \/ Use
    \/ \E event \in EventNames, payload \in Payloads : Emit(event, payload)
    \/ \E event \in EventNames, payload \in Payloads : Call(event, payload)
    \/ \E events \in GroupLists : Group(events)
    \/ \E n \in DOMAIN dispatches : Next_(n)
    \/ \E n \in DOMAIN dispatches : AwaitMiddleware(n)
    \/ \E n \in DOMAIN dispatches :
         \E k \in DOMAIN dispatches[n].executions, outcome \in {"fulfilled", "rejected"} :
           HandlerSettle(n, k, outcome)
    \/ \E n \in DOMAIN dispatches : AwaitExact(n)
    \/ \E n \in DOMAIN dispatches :
         \E t \in DOMAIN dispatches[n].namespaces : AwaitNamespace(n, t)
    \/ \E n \in DOMAIN dispatches : AwaitWildcard(n)
    \/ EmitSettle
    \/ CallSettle
    \/ GroupSettle

Spec == Init /\ [][Next]_vars

\* the dispatcher called also with a name the registry object inherits
NextInherited ==
    \/ Next
    \/ \E event \in Inherited, payload \in Payloads : Emit(event, payload)
    \/ \E event \in Inherited, payload \in Payloads : Call(event, payload)

SpecInherited == Init /\ [][NextInherited]_vars


\* ---------------------------------------------------------------- claims
\* the dispatch of emit or call
TheDispatch == dispatches[1]

\* the handlers whose calls of the given phase are recorded in d, in call order
RECURSIVE PhaseHandlers(_, _, _)
PhaseHandlers(d, phase, k) ==
    IF k > Len(d.executions) THEN <<>>
    ELSE (IF d.executions[k].phase = phase THEN <<d.executions[k].handler>> ELSE <<>>)
         \o PhaseHandlers(d, phase, k + 1)

\* C1: if a handler called during a call dispatch rejects, whatever the
\* phase it was called in, the promise of call is never fulfilled.
C1_CallRejectsWhenAHandlerRejects ==
    (/\ op.kind = "call"
     /\ \E k \in DOMAIN TheDispatch.executions : TheDispatch.executions[k].state = "rejected")
    => op.state # "fulfilled"

\* C2: when call is fulfilled, its result holds one value for every handler
\* that was called, the exact-name ones first, then the namespace ones,
\* then the wildcard ones.
C2_CallResultsInPhaseOrder ==
    (op.kind = "call" /\ op.state = "fulfilled")
    => TheDispatch.results = PhaseHandlers(TheDispatch, "exact", 1)
                             \o PhaseHandlers(TheDispatch, "namespace", 1)
                             \o PhaseHandlers(TheDispatch, "wildcard", 1)

C4_EmitWaitsForEveryHandler ==
    (op.kind = "emit" /\ op.state = "fulfilled")
    => \A k \in DOMAIN TheDispatch.executions : TheDispatch.executions[k].state # "pending"


\* the number of calls of handler h recorded in d
Calls(d, h) == Cardinality({k \in DOMAIN d.executions : d.executions[k].handler = h})

\* a namespace key with its trailing marker stripped
StripMarker(key) == SubSeq(key, 1, Len(key) - Len(Marker))

\* a namespace match as the glossary defines it
NamespaceMatch(key, eventName) ==
    /\ EndsWith(key, Marker)
    /\ StartsWith(eventName, StripMarker(key))

\* a key that matches the event name: exact, namespace or wildcard
Matches(key, eventName) ==
    \/ key = eventName
    \/ NamespaceMatch(key, eventName)
    \/ key = Wildcard

\* processEvent has gone through its three phases of calls
PastNamespace(d) == d.pc \in {"wildcard", "fulfilled"}

\* C5: in an emit of a concrete name whose dispatch went through the
\* three phases, every handler under a key matching the name was called
\* exactly once.
C5_EveryMatchingHandlerOnce ==
    (op.kind = "emit" /\ Concrete(TheDispatch.eventName) /\ PastNamespace(TheDispatch))
    => \A r \in DOMAIN handlers :
         Matches(handlers[r].event, TheDispatch.eventName)
         => \A k \in DOMAIN handlers[r].list : Calls(TheDispatch, handlers[r].list[k]) = 1

\* no middleware of d is being awaited and none rejected processEvent
PastMiddleware(d) == d.pc # "middleware" /\ d.promise = "none"

\* C6: in every dispatch a handler is called only when no middleware is
\* awaited, every middleware called so far was called once, in chain order,
\* and when the dispatch leaves the middleware phase these are all the
\* middleware registered.
C6_MiddlewareBeforeHandlers ==
    /\ [](\A n \in DOMAIN dispatches :
            /\ dispatches[n].executions # <<>> => PastMiddleware(dispatches[n])
            /\ PastMiddleware(dispatches[n]) =>
                 dispatches[n].invoked = Range(1, Len(dispatches[n].invoked)))
    /\ [][\A n \in DOMAIN dispatches' :
            (/\ PastMiddleware(dispatches'[n])
             /\ (n \in DOMAIN dispatches => ~PastMiddleware(dispatches[n])))
            => dispatches'[n].invoked = Range(1, Len(middleware'))]_vars

\* handlers were called in a dispatch that went through two middleware
C6_Witness ==
    \E n \in DOMAIN dispatches :
       /\ Len(dispatches[n].invoked) = 2
       /\ dispatches[n].executions # <<>>
       /\ op.kind = "group"

\* what the dispatch of eventName calls when every phase is reached
Called(eventName) ==
    LET d == NamespacePhase(NewDispatch(eventName, "p1", FALSE))
    IN (IF HasKey(handlers, eventName) THEN Lookup(handlers, eventName) ELSE <<>>)
       \o [k \in DOMAIN d.executions |-> d.executions[k].handler]

\* nothing is left to run for the dispatches of group and for group itself
GroupQuiescent ==
    /\ \A n \in DOMAIN dispatches :
          /\ dispatches[n].pc \notin {"start", "middleware"}
          /\ dispatches[n].raised = {}
          /\ \A k \in DOMAIN dispatches[n].executions :
                dispatches[n].executions[k].state # "pending"
    /\ ~ENABLED (\E n \in DOMAIN dispatches : AwaitExact(n) \/ AwaitWildcard(n))
    /\ ~ENABLED GroupSettle

\* C7: group is not rejected and none of its dispatches is when no
\* middleware raised, whichever handlers reject; a dispatch that went
\* through its phases called every handler it calls when alone; and when
\* every middleware has signalled and every handler has settled, and
\* nothing is left to run, group is fulfilled.
C7_GroupIsolatesHandlerFailures ==
    op.kind = "group" =>
      /\ (\A n \in DOMAIN dispatches : dispatches[n].raised = {})
         => (op.state # "rejected" /\ \A n \in DOMAIN dispatches : dispatches[n].pc # "rejected")
      /\ \A n \in DOMAIN dispatches :
            PastNamespace(dispatches[n])
            => [k \in DOMAIN dispatches[n].executions |-> dispatches[n].executions[k].handler]
               = Called(dispatches[n].eventName)
      /\ GroupQuiescent => op.state = "fulfilled"

\* group was fulfilled although a handler of its first entry rejected, and
\* the handlers of its second entry were called
C7_Witness ==
    /\ op = [kind |-> "group", state |-> "fulfilled"]
    /\ Len(dispatches) = 2
    /\ \E k \in DOMAIN dispatches[1].executions : dispatches[1].executions[k].state = "rejected"
    /\ dispatches[2].executions # <<>>
    /\ GroupQuiescent

\* C8: the namespace keys whose handlers a dispatch calls are the keys
\* that end with the marker and whose prefix, the trailing marker
\* stripped, is a leading substring of the event name; their handlers get
\* the payload and the event name of the dispatch.
C8_NamespaceKeysTriggered ==
    \A n \in DOMAIN dispatches :
       PastNamespace(dispatches[n]) =>
         /\ {dispatches[n].namespaces[t].namespace : t \in DOMAIN dispatches[n].namespaces}
            = {handlers[r].event : r \in {q \in DOMAIN handlers :
                                     NamespaceMatch(handlers[q].event, dispatches[n].eventName)}}
         /\ \A k \in DOMAIN dispatches[n].executions :
               /\ dispatches[n].executions[k].payload = dispatches[n].payload
               /\ dispatches[n].executions[k].eventName = dispatches[n].eventName

\* the handlers the schemas register under name, schema by schema
RECURSIVE RegisteredUnder(_, _)
RegisteredUnder(name, i) ==
    IF i > Len(schemas) THEN <<>>
    ELSE [k \in 1..Cardinality({j \in DOMAIN schemas[i] : schemas[i][j] = name}) |->
             <<i, CHOOSE j \in DOMAIN schemas[i] : schemas[i][j] = name>>]
         \o RegisteredUnder(name, i + 1)

\* C9: once call is past the join of the exact phase, its results begin
\* with the values of the exact-name handlers in registration order.
C9_ExactResultsInRegistrationOrder ==
    (/\ op.kind = "call"
     /\ PastNamespace(TheDispatch)
     /\ HasKey(handlers, TheDispatch.eventName))
    => SubSeq(TheDispatch.results, 1, Len(TheDispatch.exact))
       = RegisteredUnder(TheDispatch.eventName, 1)

\* call was fulfilled with two exact-name handlers, the second of which
\* was fulfilled first
C9_Witness ==
    /\ op = [kind |-> "call", state |-> "fulfilled"]
    /\ Len(TheDispatch.exact) = 2
    /\ Len(TheDispatch.settled) >= 2
    /\ TheDispatch.settled[1] = 2
    /\ TheDispatch.settled[2] = 1

C11_SharedNamesRetainedAndInvoked ==
    /\ \A r \in DOMAIN handlers :
          handlers[r].list = RegisteredUnder(handlers[r].event, 1)
    /\ (/\ op.kind = "emit"
        /\ Concrete(TheDispatch.eventName)
        /\ HasKey(handlers, TheDispatch.eventName)
        /\ TheDispatch.pc \in {"exact", "wildcard", "fulfilled"})
       => /\ \A k \in DOMAIN Lookup(handlers, TheDispatch.eventName) :
                Calls(TheDispatch, Lookup(handlers, TheDispatch.eventName)[k]) = 1
          /\ Cardinality({k \in DOMAIN TheDispatch.executions :
                             TheDispatch.executions[k].key = TheDispatch.eventName})
             = Len(RegisteredUnder(TheDispatch.eventName, 1))

\* an emit called the two handlers that two schemas give for its name
C11_Witness ==
    /\ op.kind = "emit"
    /\ Concrete(TheDispatch.eventName)
    /\ Len(RegisteredUnder(TheDispatch.eventName, 1)) = 2
    /\ Len(schemas) = 2
    /\ TheDispatch.pc = "fulfilled"
    /\ Len(TheDispatch.exact) = 2

\* the event name matches no key of the registry
Unmatched(eventName) ==
    \A r \in DOMAIN handlers : ~Matches(handlers[r].event, eventName)

\* C12: for an emit or a call of a name that matches no key, no middleware
\* having raised, no handler is called, neither processEvent nor the promise
\* of emit or call is rejected, and the result of a fulfilled call is empty.
C12_UnmatchedEventIsNoError ==
    (/\ op.kind \in {"emit", "call"}
     /\ Unmatched(TheDispatch.eventName)
     /\ TheDispatch.raised = {})
    => /\ TheDispatch.executions = <<>>
       /\ TheDispatch.pc # "rejected"
       /\ op.state # "rejected"
       /\ TheDispatch.results = <<>>


\* handlers of the given phase have been called in d
Invoked(d, phase) == \E k \in DOMAIN d.executions : d.executions[k].phase = phase

\* the promise of every handler of the given phase called in d is settled
Settled(d, phase) ==
    \A k \in DOMAIN d.executions :
       d.executions[k].phase = phase => d.executions[k].state # "pending"

\* C13: in no dispatch has a wildcard handler been called while a
\* namespace handler of the dispatch is pending.
C13_WildcardAfterNamespaceJoin ==
    \A n \in DOMAIN dispatches :
       Invoked(dispatches[n], "wildcard") => Settled(dispatches[n], "namespace")

\* C14: in every dispatch where a namespace or a wildcard handler has been
\* called, every exact-name handler has settled and the join of the exact
\* phase has put its outcomes in results.
C14_ExactJoinBeforeLaterPhases ==
    \A n \in DOMAIN dispatches :
       (Invoked(dispatches[n], "namespace") \/ Invoked(dispatches[n], "wildcard"))
       => /\ Settled(dispatches[n], "exact")
          /\ Len(dispatches[n].results) >= Len(dispatches[n].exact)
          /\ dispatches[n].pc \notin {"start", "middleware", "exact"}

\* namespace and wildcard handlers were called after an exact-name handler
\* was rejected and another fulfilled
C14_Witness ==
    \E n \in DOMAIN dispatches :
       /\ Invoked(dispatches[n], "namespace")
       /\ Invoked(dispatches[n], "wildcard")
       /\ Len(dispatches[n].exact) = 2
       /\ dispatches[n].executions[1].state = "rejected"
       /\ dispatches[n].executions[2].state = "fulfilled"

\* the handlers called in d for a key in a phase, in call order
PhaseKeyHandlers(d, phase, key) ==
    LET calls == SelectSeq(d.executions, LAMBDA e : e.phase = phase /\ e.key = key)
    IN [k \in DOMAIN calls |-> calls[k].handler]

\* C15: whenever a handler has been called for a key in a phase, all the
\* handlers under the key have been called in that phase, whatever has
\* become of their siblings, in emit, group and call alike.
C15_PhaseCallsEverySibling ==
    \A n \in DOMAIN dispatches :
       \A k \in DOMAIN dispatches[n].executions :
          PhaseKeyHandlers(dispatches[n], dispatches[n].executions[k].phase,
                           dispatches[n].executions[k].key)
          = Lookup(handlers, dispatches[n].executions[k].key)

\* a call was rejected by its first exact-name handler while the second,
\* called as well, never settled
C15_Witness ==
    /\ op = [kind |-> "call", state |-> "rejected"]
    /\ Len(TheDispatch.exact) = 2
    /\ TheDispatch.executions[1].state = "rejected"
    /\ TheDispatch.executions[2].state = "pending"


\* C16: the middleware of a dispatch are called one at a time in chain
\* order, the next one only once the one before has invoked its
\* continuation; while the middleware called has neither invoked its
\* continuation nor raised, the dispatch stays where it is, no handler of
\* it has been called, and the promise of emit or call is pending.
C16_MiddlewareSequentialAndStall ==
    /\ [](\A n \in DOMAIN dispatches :
            /\ dispatches[n].invoked = Range(1, Len(dispatches[n].invoked))
            /\ dispatches[n].promise = "pending" =>
                 /\ dispatches[n].called = 0
                 /\ dispatches[n].pc = "middleware"
                 /\ dispatches[n].executions = <<>>
                 /\ op.kind \in {"emit", "call"} => op.state = "pending")
    /\ [][\A n \in DOMAIN dispatches :
            /\ (dispatches[n].promise = "pending" /\ dispatches'[n].called = 0)
               => dispatches'[n] = dispatches[n]
            /\ dispatches'[n].invoked # dispatches[n].invoked
               => /\ dispatches[n].called >= 1
                  /\ dispatches'[n].invoked
                     = Append(dispatches[n].invoked, Len(dispatches[n].invoked) + 1)]_vars

\* the first middleware invoked its continuation and the second, called
\* after it, has not: an emit for a name with handlers is pending with no
\* handler called, while the chain has grown
C16_Witness ==
    /\ op = [kind |-> "emit", state |-> "pending"]
    /\ TheDispatch.invoked = <<1, 2>>
    /\ TheDispatch.promise = "pending"
    /\ TheDispatch.executions = <<>>
    /\ Called(TheDispatch.eventName) # <<>>


\* C17: in a dispatch where a middleware has invoked its continuation more
\* than once, the await resumes once: the middleware called are the chain
\* in order, each once, all of them when the dispatch leaves the middleware
\* phase; and the handlers called are those the event calls otherwise,
\* each once for a concrete name.
C17_ContinuationSingleShot ==
    /\ [](\A n \in DOMAIN dispatches :
            dispatches[n].twice =>
              /\ dispatches[n].invoked = Range(1, Len(dispatches[n].invoked))
              /\ Concrete(dispatches[n].eventName) =>
                   \A k \in DOMAIN dispatches[n].executions :
                      Calls(dispatches[n], dispatches[n].executions[k].handler) = 1
              /\ PastNamespace(dispatches[n]) =>
                   [k \in DOMAIN dispatches[n].executions |->
                       dispatches[n].executions[k].handler]
                   = Called(dispatches[n].eventName))
    /\ [][\A n \in DOMAIN dispatches :
            (/\ dispatches'[n].twice
             /\ ~PastMiddleware(dispatches[n])
             /\ PastMiddleware(dispatches'[n]))
            => dispatches'[n].invoked = Range(1, Len(middleware'))]_vars

\* the first of two middleware invoked its continuation twice, the second
\* was called after it, and the handlers of the event were called
C17_Witness ==
    /\ op = [kind |-> "emit", state |-> "fulfilled"]
    /\ TheDispatch.twice
    /\ TheDispatch.invoked = <<1, 2>>
    /\ Len(TheDispatch.executions) >= 2
    /\ TheDispatch.pc = "fulfilled"
    /\ Concrete(TheDispatch.eventName)


\* an exact-name handler of d was rejected
ExactRejected(d) ==
    \E k \in DOMAIN d.executions :
       d.executions[k].phase = "exact" /\ d.executions[k].state = "rejected"

\* C18: a call one of whose exact-name handlers was rejected has called no
\* namespace and no wildcard handler and does not get past the join of
\* the exact phase; an emit in the same case goes through the later phases
\* and has called, past them, all the handlers the event calls.
C18_CallStopsAtExactJoin ==
    \A n \in DOMAIN dispatches :
       ExactRejected(dispatches[n]) =>
          IF dispatches[n].collectResults
          THEN /\ ~Invoked(dispatches[n], "namespace")
               /\ ~Invoked(dispatches[n], "wildcard")
               /\ dispatches[n].pc \in {"exact", "rejected"}
               /\ dispatches[n].results = <<>>
          ELSE /\ dispatches[n].pc # "rejected"
               /\ PastNamespace(dispatches[n]) =>
                    [k \in DOMAIN dispatches[n].executions |->
                        dispatches[n].executions[k].handler]
                    = Called(dispatches[n].eventName)

\* a call was rejected at the exact join for an event that has namespace
\* or wildcard handlers as well
C18_Witness ==
    /\ op = [kind |-> "call", state |-> "rejected"]
    /\ ExactRejected(TheDispatch)
    /\ TheDispatch.pc = "rejected"
    /\ Len(Called(TheDispatch.eventName)) > Len(TheDispatch.exact)

\* C19: in no dispatch for an event name that is a key of the registry is
\* a handler called more than once.
C19_RegistryKeyCallsOnce ==
    \A n \in DOMAIN dispatches :
       HasKey(handlers, dispatches[n].eventName) =>
          \A k \in DOMAIN dispatches[n].executions :
             Calls(dispatches[n], dispatches[n].executions[k].handler) <= 1


\* C20 as stated: a dispatch calls no middleware beyond those registered
\* when it started.
C20_MiddlewareFixedAtStart ==
    \A n \in DOMAIN dispatches :
       \A k \in DOMAIN dispatches[n].invoked :
          dispatches[n].invoked[k] <= dispatches[n].started

\* C20: the middleware a dispatch runs are fixed when it leaves its
\* middleware phase: they are those registered at that moment, the ones
\* appended while it was suspended in the phase included, and from then on
\* the dispatch calls no middleware, whatever use appends.
C20_MiddlewareFixedOnLeavingPhase ==
    /\ [][\A n \in DOMAIN dispatches :
            PastMiddleware(dispatches[n]) =>
               /\ PastMiddleware(dispatches'[n])
               /\ dispatches'[n].invoked = dispatches[n].invoked]_vars
    /\ [][\A n \in DOMAIN dispatches :
            (~PastMiddleware(dispatches[n]) /\ PastMiddleware(dispatches'[n]))
            => /\ dispatches'[n].invoked = Range(1, Len(middleware'))
               /\ Len(middleware') >= dispatches[n].started]_vars

\* a dispatch started with one middleware registered has left its
\* middleware phase having called a second one, appended meanwhile, and
\* has called handlers
C20_Witness ==
    \E n \in DOMAIN dispatches :
       /\ dispatches[n].started = 1
       /\ dispatches[n].invoked = <<1, 2>>
       /\ PastMiddleware(dispatches[n])
       /\ dispatches[n].executions # <<>>

====
